---- MODULE Spec2Model ----
\* Model of src/app.py: the PDF / image text-extraction pipeline
\* (process_pdf, process_image, their two entry points and the helpers
\* convert_pdf_page_to_image, extract_text_with_openai,
\* extract_text_with_tesseract).
\*
\* The source's Korean string literals are written here in ASCII:
\*   column "page"       : the page-number key          (app.py:202)
\*   column "openai"     : the "OpenAI ... text" key     (app.py:203)
\*   column "tesseract"  : the "Tesseract ... text" key  (app.py:209)
\*   ocr_method "OpenAI" / "Tesseract" / "Both" : the three radio choices
\*                                                       (app.py:35)
EXTENDS Integers, Sequences, FiniteSets, TLC

\* ---------------------------------------------------------------- bounds

\* Largest page count of an uploaded document.
MaxPages == 2

\* ------------------------------------------------------ program constants

\* app.py:225-226, the text of a row whose page could not be rendered.
ConvFailed == "page conversion failed"
\* app.py:142, status 200 but no "choices" in the answer.
NoChoicesMsg == "OpenAI could not extract text"
\* app.py:145, non-200 status.
ApiErrorMsg == "OpenAI API error occurred"
\* app.py:148, exception while calling the endpoint.
OpenAIExcMsg == "error during OpenAI text extraction: e"
\* app.py:167, empty or whitespace-only recognition result.
TessEmptyMsg == "Tesseract OCR could not extract text"
\* app.py:170, exception in decoding or recognition.
TessExcMsg == "error during Tesseract OCR: e"

\* app.py:33-36, the radio choices.
Methods == {"OpenAI", "Tesseract", "Both"}

\* What the environment does to one call of convert_pdf_page_to_image:
\* everything works, fitz.open raises (app.py:74), or load_page /
\* get_pixmap / tobytes raises (app.py:80-83).
RasterOutcomes == {"ok", "open_fail", "render_fail"}
\* What the endpoint does to one request (app.py:129-148).
CloudOutcomes == {"ok", "nochoices", "http", "exc"}
\* What the local engine yields: a text, a whitespace-only text, or an
\* exception (app.py:152-170).
OcrOutcomes == {"Hello", " ", "exc"}

VARIABLES
    api_key,          \* sidebar text input, "" when absent (app.py:26)
    ocr_method,       \* sidebar radio (app.py:33)
    use_google_sheets,\* checkbox and a sheet id were given (app.py:27-29,364)
    pc,               \* position of the script run
    tab,              \* entry point that started the run: "none", "pdf", "image"
    sheet,            \* the sheet handle: "None" or "sheet1" (app.py:362-365)
    sheetRows,        \* the spreadsheet's content, a sequence of rows
    sheetOps,         \* log of the sheet operations attempted
    filePos,          \* read position of the uploaded PDF stream: "start" / "end"
    doc_opened,       \* "unset", "ok", "failed": outcome of opening the input
    page_count,       \* doc.page_count (app.py:178)
    rasterPlan,       \* per page, the environment's RasterOutcomes
    cloudPlan,        \* per page, the endpoint's CloudOutcomes
    ocrPlan,          \* per page, the local engine's OcrOutcomes
    i,                \* loop variable of process_pdf (app.py:190)
    img_bytes,        \* "png" or "None" (app.py:196)
    openai_text,      \* app.py:200/212
    tesseract_text,   \* app.py:206/213
    extracted_texts,  \* app.py:187, the list of row dicts
    results,          \* app.py:297, the dict of process_image
    result,           \* what process_pdf / process_image returned
    calls,            \* log of the calls of the rasterizer and the extractors
    messages,         \* st.warning / st.error / st.success shown
    csv_offered       \* the download button was rendered (app.py:396, 441)

vars == <<api_key, ocr_method, use_google_sheets, pc, tab, sheet, sheetRows,
          sheetOps, filePos, doc_opened, page_count, rasterPlan, cloudPlan,
          ocrPlan, i, img_bytes, openai_text, tesseract_text, extracted_texts,
          results, result, calls, messages, csv_offered>>

config == <<api_key, ocr_method, use_google_sheets>>
plans == <<rasterPlan, cloudPlan, ocrPlan>>
temps == <<img_bytes, openai_text, tesseract_text>>

\* ----------------------------------------------------------- pure helpers

\* text.strip() of the texts the local engine can yield (app.py:167).
Strip(t) == IF t \in {"", " "} THEN "" ELSE t

\* extract_text_with_openai, given what the endpoint does (app.py:90-148).
\* page_num and api_key are parameters the body never reads for its result.
extract_text_with_openai_SwappedMsg(image_bytes, page_num, key, outcome) ==
    CASE outcome = "ok" -> "Hello"
      [] outcome = "nochoices" -> NoChoicesMsg
      [] outcome = "http" -> NoChoicesMsg
      [] OTHER -> OpenAIExcMsg

extract_text_with_openai(image_bytes, page_num, key, outcome) ==
    CASE outcome = "ok" -> "Hello"
      [] outcome = "nochoices" -> NoChoicesMsg
      [] outcome = "http" -> ApiErrorMsg
      [] OTHER -> OpenAIExcMsg

\* extract_text_with_tesseract, given what the engine yields (app.py:151-170).
extract_text_with_tesseract(image_bytes, outcome) ==
    IF outcome = "exc" THEN TessExcMsg
    ELSE IF Strip(outcome) # "" THEN outcome ELSE TessEmptyMsg

\* convert_pdf_page_to_image (app.py:71-87): the image it returns and the
\* stream position it leaves, and whether the handler at app.py:85-87 ran.
\* pdf_file.read() yields the whole document
\* only from the start of the stream and leaves the position at the end;
\* fitz.open raises on an empty stream; seek(0) runs only after fitz.open
\* returned.
convert_pdf_page_to_image(pos, page_num, outcome, count) ==
    LET bytes == IF pos = "start" THEN "document" ELSE "empty"
    IN  IF bytes = "empty" \/ outcome = "open_fail"
        THEN [img |-> "None", pos |-> "end", raised |-> TRUE]
        ELSE IF page_num >= count
        THEN [img |-> "None", pos |-> "start", raised |-> FALSE]
        ELSE IF outcome = "render_fail"
        THEN [img |-> "None", pos |-> "start", raised |-> TRUE]
        ELSE [img |-> "png", pos |-> "start", raised |-> FALSE]

\* The dict appended for a rendered page (app.py:199-218).
SuccessRow(p, otext, ttext) ==
    IF ocr_method = "OpenAI" THEN [page |-> p, openai |-> otext]
    ELSE IF ocr_method = "Tesseract" THEN [page |-> p, tesseract |-> ttext]
    ELSE [page |-> p, openai |-> otext, tesseract |-> ttext]

\* The dict appended for a page that could not be rendered (app.py:223-227).
FailureRow(p) ==
    [page |-> p, openai |-> ConvFailed, tesseract |-> ConvFailed]

\* Column order of pandas.DataFrame(list of dicts): first appearance.
ColumnOrder == <<"page", "openai", "tesseract">>

RECURSIVE SelectCols(_, _)
SelectCols(order, present) ==
    IF order = <<>> THEN <<>>
    ELSE (IF Head(order) \in present THEN <<Head(order)>> ELSE <<>>)
         \o SelectCols(Tail(order), present)

\* pd.DataFrame(extracted_texts) (app.py:234): the columns are the union of
\* the dicts' keys, and a key a dict lacks is NaN in its row.
DataFrame(rows) ==
    LET present == UNION {DOMAIN rows[r] : r \in 1..Len(rows)}
    IN  [kind |-> "df",
         columns |-> SelectCols(ColumnOrder, present),
         rows |-> [r \in 1..Len(rows) |->
                     [c \in present |->
                        IF c \in DOMAIN rows[r] THEN rows[r][c] ELSE "NaN"]]]

NoResult == [kind |-> "unset"]
None == [kind |-> "None"]

\* ------------------------------------------------------------------ Init

\* Content of the target sheet before the run.
PriorSheet == [r \in 1..(MaxPages + 3) |-> <<"old", "old", "old", "old">>]

Init ==
    /\ api_key \in {"", "sk-key"}
    /\ ocr_method \in Methods
    /\ use_google_sheets \in BOOLEAN
    /\ pc = "idle"
    /\ tab = "none"
    /\ sheet = "None"
    /\ sheetRows = PriorSheet
    /\ sheetOps = <<>>
    /\ filePos = "start"
    /\ doc_opened = "unset"
    /\ page_count = 0
    /\ rasterPlan = <<>>
    /\ cloudPlan = <<>>
    /\ ocrPlan = <<>>
    /\ i = 0
    /\ img_bytes = "None"
    /\ openai_text = ""
    /\ tesseract_text = ""
    /\ extracted_texts = <<>>
    /\ results = <<>>
    /\ result = NoResult
    /\ calls = <<>>
    /\ messages = {}
    /\ csv_offered = FALSE

\* ---------------------------------------------------------- entry points

\* The guard of both tabs (app.py:357 and app.py:411):
\* not api_key and ocr_method != "Tesseract OCR".
NeedsApiKey_OnlyOpenAI == api_key = "" /\ ocr_method = "OpenAI"

NeedsApiKey == api_key = "" /\ ocr_method # "Tesseract"

\* sheet = None, then connect_to_google_sheets when the checkbox and the id
\* are set (app.py:362-365, 416-419; 43-68): the handle, or None and an
\* error message when anything in the connection raises.
ConnectSheets ==
    IF use_google_sheets
    THEN \E ok \in BOOLEAN :
            /\ sheet' = IF ok THEN "sheet1" ELSE "None"
            /\ messages' = IF ok THEN messages
                           ELSE messages \cup {"error_connect"}
            /\ calls' = Append(calls, [op |-> "connect", page |-> 0,
                                       out |-> IF ok THEN "sheet1" ELSE "None"])
    ELSE /\ sheet' = "None"
         /\ UNCHANGED <<messages, calls>>

\* Tab 1 with a PDF uploaded and the key missing (app.py:356-358).
Tab1Warning ==
    /\ pc = "idle"
    /\ NeedsApiKey
    /\ messages' = messages \cup {"warning_api_key"}
    /\ tab' = "pdf"
    /\ pc' = "blocked"
    /\ UNCHANGED <<config, sheet, sheetRows, sheetOps, filePos, doc_opened,
                   page_count, plans, i, temps, extracted_texts, results,
                   result, calls, csv_offered>>

\* Tab 1, the button pressed (app.py:359-369), up to the call of process_pdf.
Tab1Start ==
    /\ pc = "idle"
    /\ ~NeedsApiKey
    /\ ConnectSheets
    /\ tab' = "pdf"
    /\ pc' = "process_pdf"
    /\ UNCHANGED <<config, sheetRows, sheetOps, filePos, doc_opened,
                   page_count, plans, i, temps, extracted_texts, results,
                   result, csv_offered>>

\* Tab 2 with an image uploaded and the key missing (app.py:410-412).
Tab2Warning ==
    /\ pc = "idle"
    /\ NeedsApiKey
    /\ messages' = messages \cup {"warning_api_key"}
    /\ tab' = "image"
    /\ pc' = "blocked"
    /\ UNCHANGED <<config, sheet, sheetRows, sheetOps, filePos, doc_opened,
                   page_count, plans, i, temps, extracted_texts, results,
                   result, calls, csv_offered>>

\* Tab 2, the button pressed (app.py:413-423), up to the call of process_image.
Tab2Start ==
    /\ pc = "idle"
    /\ ~NeedsApiKey
    /\ ConnectSheets
    /\ tab' = "image"
    /\ pc' = "process_image"
    /\ UNCHANGED <<config, sheetRows, sheetOps, filePos, doc_opened,
                   page_count, plans, i, temps, extracted_texts, results,
                   result, csv_offered>>

\* ------------------------------------------------------------ process_pdf

UsesCloud == ocr_method \in {"OpenAI", "Both"}
UsesLocal == ocr_method \in {"Tesseract", "Both"}

\* The outer handler of process_pdf (app.py:276-278) after fitz.open raised
\* at app.py:176: the stream was read to its end and seek(0) was skipped.
PdfOpenFailed_EmptyTable ==
    /\ doc_opened' = "failed"
    /\ filePos' = "end"
    /\ messages' = messages \cup {"error_pdf"}
    /\ result' = DataFrame(<<>>)
    /\ pc' = "display"
    /\ UNCHANGED <<page_count, plans, i, extracted_texts>>

PdfOpenFailed ==
    /\ doc_opened' = "failed"
    /\ filePos' = "end"
    /\ messages' = messages \cup {"error_pdf"}
    /\ result' = None
    /\ pc' = "display"
    /\ UNCHANGED <<page_count, plans, i, extracted_texts>>

\* process_pdf up to the loop (app.py:174-187). A document that opens
\* brings its page count and what the environment will do to each page's
\* calls; an extractor the strategy never calls has no outcome.
PdfOpen ==
    /\ pc = "process_pdf"
    /\ \/ PdfOpenFailed
       \/ \E n \in 0..MaxPages :
          \E rp \in [1..n -> RasterOutcomes] :
          \E cp \in [1..n -> IF UsesCloud THEN CloudOutcomes ELSE {"unused"}] :
          \E op \in [1..n -> IF UsesLocal THEN OcrOutcomes ELSE {"unused"}] :
             /\ doc_opened' = "ok"
             /\ filePos' = "start"
             /\ page_count' = n
             /\ rasterPlan' = rp
             /\ cloudPlan' = cp
             /\ ocrPlan' = op
             /\ extracted_texts' = <<>>
             /\ i' = 0
             /\ pc' = "loop"
             /\ UNCHANGED <<messages, result>>
    /\ UNCHANGED <<config, tab, sheet, sheetRows, sheetOps, temps, results,
                   calls, csv_offered>>

\* Loop head and the rasterizer call (app.py:190-197).
Rasterize ==
    /\ pc = "loop"
    /\ i < page_count
    /\ LET c == convert_pdf_page_to_image(filePos, i, rasterPlan[i + 1],
                                          page_count)
       IN  /\ img_bytes' = c.img
           /\ filePos' = c.pos
           /\ calls' = Append(calls, [op |-> "convert", page |-> i + 1,
                                      out |-> c.img])
           /\ messages' = IF c.raised THEN messages \cup {"error_convert"}
                          ELSE messages
    /\ pc' = "branch"
    /\ UNCHANGED <<config, tab, sheet, sheetRows, sheetOps, doc_opened,
                   page_count, plans, i, openai_text, tesseract_text,
                   extracted_texts, results, result, csv_offered>>

\* The else branch of "if img_bytes" (app.py:222-227).
RecordFailure_Skip ==
    /\ pc = "branch"
    /\ img_bytes = "None"
    /\ extracted_texts' = extracted_texts
    /\ i' = i + 1
    /\ pc' = "loop"
    /\ UNCHANGED <<config, tab, sheet, sheetRows, sheetOps, filePos,
                   doc_opened, page_count, plans, temps, results, result,
                   calls, messages, csv_offered>>

RecordFailure ==
    /\ pc = "branch"
    /\ img_bytes = "None"
    /\ extracted_texts' = Append(extracted_texts, FailureRow(i + 1))
    /\ i' = i + 1
    /\ pc' = "loop"
    /\ UNCHANGED <<config, tab, sheet, sheetRows, sheetOps, filePos,
                   doc_opened, page_count, plans, temps, results, result,
                   calls, messages, csv_offered>>

\* Where process_pdf goes after the cloud call (app.py:199-213): to the
\* append under "OpenAI", to the local call under "Both".
AfterOpenAI_AlwaysLocal == "tesseract"

AfterOpenAI == IF ocr_method = "OpenAI" THEN "append" ELSE "tesseract"

\* The diagnostic extract_text_with_openai shows (app.py:144, 147).
OpenAIMessages(outcome) ==
    IF outcome = "http" THEN {"error_api"}
    ELSE IF outcome = "exc" THEN {"error_openai"} ELSE {}

\* The cloud call of a rendered page (app.py:200 and 212).
CallOpenAI ==
    /\ pc = "branch"
    /\ img_bytes # "None"
    /\ ocr_method # "Tesseract"
    /\ openai_text' = extract_text_with_openai(img_bytes, i, api_key,
                                               cloudPlan[i + 1])
    /\ calls' = Append(calls, [op |-> "openai", page |-> i + 1,
                               out |-> openai_text'])
    /\ messages' = messages \cup OpenAIMessages(cloudPlan[i + 1])
    /\ pc' = AfterOpenAI
    /\ UNCHANGED <<config, tab, sheet, sheetRows, sheetOps, filePos,
                   doc_opened, page_count, plans, i, img_bytes,
                   tesseract_text, extracted_texts, results, result,
                   csv_offered>>

\* The local call of a rendered page (app.py:206 and 213).
CallTesseract ==
    /\ \/ pc = "branch" /\ img_bytes # "None" /\ ocr_method = "Tesseract"
       \/ pc = "tesseract"
    /\ tesseract_text' = extract_text_with_tesseract(img_bytes, ocrPlan[i + 1])
    /\ messages' = IF ocrPlan[i + 1] = "exc"
                   THEN messages \cup {"error_tesseract"} ELSE messages
    /\ calls' = Append(calls, [op |-> "tesseract", page |-> i + 1,
                               out |-> tesseract_text'])
    /\ pc' = "append"
    /\ UNCHANGED <<config, tab, sheet, sheetRows, sheetOps, filePos,
                   doc_opened, page_count, plans, i, img_bytes, openai_text,
                   extracted_texts, results, result, csv_offered>>

\* The append of a rendered page's row and the pause (app.py:201-221).
AppendRow ==
    /\ pc = "append"
    /\ extracted_texts' = Append(extracted_texts,
                                 SuccessRow(i + 1, openai_text, tesseract_text))
    /\ i' = i + 1
    /\ pc' = "loop"
    /\ UNCHANGED <<config, tab, sheet, sheetRows, sheetOps, filePos,
                   doc_opened, page_count, plans, temps, results, result,
                   calls, messages, csv_offered>>

\* Loop exit (app.py:229-237): the progress bar is completed, the
\* DataFrame is built, and the sink runs if there is a sheet.
LoopExit ==
    /\ pc = "loop"
    /\ i >= page_count
    /\ pc' = IF sheet # "None" THEN "sheet_clear" ELSE "return"
    /\ UNCHANGED <<config, tab, sheet, sheetRows, sheetOps, filePos,
                   doc_opened, page_count, plans, i, temps, extracted_texts,
                   results, result, calls, messages, csv_offered>>

\* ------------------------------------------------- the spreadsheet sink

\* sheet.update(range, values) on one row: the row's first Len(vals) cells
\* are overwritten, the sheet grows to hold the row, other cells stay.
SetRow(grid, r, vals) ==
    LET g == [k \in 1..(IF Len(grid) > r THEN Len(grid) ELSE r) |->
                IF k <= Len(grid) THEN grid[k] ELSE <<>>]
        old == g[r]
        w == IF Len(old) > Len(vals) THEN Len(old) ELSE Len(vals)
    IN  [g EXCEPT ![r] = [c \in 1..w |->
                            IF c <= Len(vals) THEN vals[c] ELSE old[c]]]

\* sheet.update of a block of rows starting at row "first".
RECURSIVE SetRows(_, _, _)
SetRows(grid, first, block) ==
    IF block = <<>> THEN grid
    ELSE SetRows(SetRow(grid, first, Head(block)), first + 1, Tail(block))

\* The header row of process_pdf (app.py:244, 248, 252).
HeaderRow ==
    IF ocr_method = "OpenAI" THEN <<"page", "openai">>
    ELSE IF ocr_method = "Tesseract" THEN <<"page", "tesseract">>
    ELSE <<"page", "openai", "tesseract">>

\* data_to_insert (app.py:246, 250, 254).
data_to_insert ==
    [r \in 1..Len(extracted_texts) |->
        IF ocr_method = "OpenAI"
        THEN <<extracted_texts[r].page, extracted_texts[r].openai>>
        ELSE IF ocr_method = "Tesseract"
        THEN <<extracted_texts[r].page, extracted_texts[r].tesseract>>
        ELSE <<extracted_texts[r].page, extracted_texts[r].openai,
               extracted_texts[r].tesseract>>]

\* The text written over cell A1 (app.py:264-269).
FirstCellText_Local ==
    IF ocr_method = "OpenAI" THEN extracted_texts[1].openai
    ELSE extracted_texts[1].tesseract

FirstCellText ==
    IF ocr_method = "OpenAI" THEN extracted_texts[1].openai
    ELSE IF ocr_method = "Tesseract" THEN extracted_texts[1].tesseract
    ELSE extracted_texts[1].openai

\* The handler of a failed sheet operation (app.py:272-273, 341-342): the
\* error is shown and the function goes on to its return statement.
SheetFailure_Propagates ==
    /\ messages' = messages \cup {"error_sheet"}
    /\ sheetRows' = sheetRows
    /\ result' = None
    /\ pc' = "display"

SheetFailure ==
    /\ messages' = messages \cup {"error_sheet"}
    /\ sheetRows' = sheetRows
    /\ result' = result
    /\ pc' = "return"

\* What no sheet step changes.
SinkFrame ==
    UNCHANGED <<config, tab, sheet, filePos, doc_opened, page_count, plans,
                i, temps, extracted_texts, results, calls, csv_offered>>

\* sheet.clear() (app.py:240).
SheetClear ==
    /\ pc = "sheet_clear"
    /\ tab = "pdf"
    /\ sheetOps' = Append(sheetOps, "clear")
    /\ \/ /\ sheetRows' = <<>>
          /\ pc' = "sheet_header"
          /\ UNCHANGED <<messages, result>>
       \/ SheetFailure
    /\ SinkFrame

\* The header write (app.py:243-254).
SheetHeader ==
    /\ pc = "sheet_header"
    /\ tab = "pdf"
    /\ sheetOps' = Append(sheetOps, "header")
    /\ \/ /\ sheetRows' = SetRow(sheetRows, 1, HeaderRow)
          /\ pc' = "sheet_data"
          /\ UNCHANGED <<messages, result>>
       \/ SheetFailure
    /\ SinkFrame

\* The data-block write, skipped for an empty table (app.py:256-260).
SheetData ==
    /\ pc = "sheet_data"
    /\ tab = "pdf"
    /\ IF Len(data_to_insert) > 0
       THEN /\ sheetOps' = Append(sheetOps, "data")
            /\ \/ /\ sheetRows' = SetRows(sheetRows, 2, data_to_insert)
                  /\ pc' = "sheet_first_cell"
                  /\ UNCHANGED <<messages, result>>
               \/ SheetFailure
       ELSE /\ pc' = "sheet_first_cell"
            /\ UNCHANGED <<sheetOps, sheetRows, messages, result>>
    /\ SinkFrame

\* The overwrite of cell A1, skipped for an empty table, and the success
\* message (app.py:262-271).
SheetFirstCell ==
    /\ pc = "sheet_first_cell"
    /\ tab = "pdf"
    /\ IF Len(extracted_texts) > 0
       THEN /\ sheetOps' = Append(sheetOps, "first_cell")
            /\ \/ /\ sheetRows' = SetRow(sheetRows, 1, <<FirstCellText>>)
                  /\ messages' = messages \cup {"success_sheet"}
                  /\ pc' = "return"
                  /\ UNCHANGED result
               \/ SheetFailure
       ELSE /\ messages' = messages \cup {"success_sheet"}
            /\ pc' = "return"
            /\ UNCHANGED <<sheetOps, sheetRows, result>>
    /\ SinkFrame

\* return df (app.py:275).
Return ==
    /\ pc = "return"
    /\ tab = "pdf"
    /\ result' = DataFrame(extracted_texts)
    /\ pc' = "display"
    /\ UNCHANGED <<config, tab, sheet, sheetRows, sheetOps, filePos,
                   doc_opened, page_count, plans, i, temps, extracted_texts,
                   results, calls, messages, csv_offered>>

\* Tab 1 after process_pdf returned (app.py:371-401): the views and the
\* download button, only for a result that is not None.
Tab1Display ==
    /\ pc = "display"
    /\ tab = "pdf"
    /\ csv_offered' = (result.kind # "None")
    /\ pc' = "done"
    /\ UNCHANGED <<config, tab, sheet, sheetRows, sheetOps, filePos,
                   doc_opened, page_count, plans, i, temps, extracted_texts,
                   results, result, calls, messages>>

\* ---------------------------------------------------------- process_image

\* The outer handler of process_image (app.py:345-347) after Image.open
\* raised at app.py:287.
ImageOpenFailed_EmptyResult ==
    /\ doc_opened' = "failed"
    /\ messages' = messages \cup {"error_image"}
    /\ result' = [kind |-> "results", dict |-> <<>>]
    /\ pc' = "display"
    /\ UNCHANGED results

ImageOpenFailed ==
    /\ doc_opened' = "failed"
    /\ messages' = messages \cup {"error_image"}
    /\ result' = None
    /\ pc' = "display"
    /\ UNCHANGED results

\* process_image up to the extraction (app.py:282-297).
ProcessImageOpen ==
    /\ pc = "process_image"
    /\ \/ ImageOpenFailed
       \/ /\ doc_opened' = "ok"
          /\ results' = <<>>
          /\ pc' = IF UsesCloud THEN "img_openai" ELSE "img_tesseract"
          /\ UNCHANGED <<messages, result>>
    /\ UNCHANGED <<config, tab, sheet, sheetRows, sheetOps, filePos,
                   page_count, plans, i, temps, extracted_texts, calls,
                   csv_offered>>

\* The cloud call of the image (app.py:300-305), page number 0.
ImgCallOpenAI ==
    /\ pc = "img_openai"
    /\ \E o \in CloudOutcomes :
          /\ openai_text' = extract_text_with_openai("image", 0, api_key, o)
          /\ messages' = messages \cup OpenAIMessages(o)
    /\ results' = results @@ ("openai" :> openai_text')
    /\ calls' = Append(calls, [op |-> "openai", page |-> 0,
                               out |-> openai_text'])
    /\ pc' = IF UsesLocal THEN "img_tesseract" ELSE "img_sink"
    /\ UNCHANGED <<config, tab, sheet, sheetRows, sheetOps, filePos,
                   doc_opened, page_count, plans, i, img_bytes,
                   tesseract_text, extracted_texts, result, csv_offered>>

\* The local call of the image (app.py:307-311).
ImgCallTesseract ==
    /\ pc = "img_tesseract"
    /\ \E o \in OcrOutcomes :
          /\ tesseract_text' = extract_text_with_tesseract("image", o)
          /\ messages' = IF o = "exc" THEN messages \cup {"error_tesseract"}
                         ELSE messages
    /\ results' = results @@ ("tesseract" :> tesseract_text')
    /\ calls' = Append(calls, [op |-> "tesseract", page |-> 0,
                               out |-> tesseract_text'])
    /\ pc' = "img_sink"
    /\ UNCHANGED <<config, tab, sheet, sheetRows, sheetOps, filePos,
                   doc_opened, page_count, plans, i, img_bytes, openai_text,
                   extracted_texts, result, csv_offered>>

\* The end of the extraction (app.py:313-318).
ImgExtractDone ==
    /\ pc = "img_sink"
    /\ pc' = IF sheet # "None" THEN "sheet_clear" ELSE "return"
    /\ UNCHANGED <<config, tab, sheet, sheetRows, sheetOps, filePos,
                   doc_opened, page_count, plans, i, temps, extracted_texts,
                   results, result, calls, messages, csv_offered>>

\* sheet.clear() (app.py:321).
ImgSheetClear ==
    /\ pc = "sheet_clear"
    /\ tab = "image"
    /\ sheetOps' = Append(sheetOps, "clear")
    /\ \/ /\ sheetRows' = <<>>
          /\ pc' = "sheet_header"
          /\ UNCHANGED <<messages, result>>
       \/ SheetFailure
    /\ SinkFrame

\* The header of process_image (app.py:325, 328, 331).
ImgHeaderRow ==
    IF ocr_method = "OpenAI" THEN <<"openai">>
    ELSE IF ocr_method = "Tesseract" THEN <<"tesseract">>
    ELSE <<"openai", "tesseract">>

\* The data row of process_image (app.py:326, 329, 332).
ImgDataRow ==
    IF ocr_method = "OpenAI" THEN <<results["openai"]>>
    ELSE IF ocr_method = "Tesseract" THEN <<results["tesseract"]>>
    ELSE <<results["openai"], results["tesseract"]>>

ImgSheetHeader ==
    /\ pc = "sheet_header"
    /\ tab = "image"
    /\ sheetOps' = Append(sheetOps, "header")
    /\ \/ /\ sheetRows' = SetRow(sheetRows, 1, ImgHeaderRow)
          /\ pc' = "sheet_data"
          /\ UNCHANGED <<messages, result>>
       \/ SheetFailure
    /\ SinkFrame

ImgSheetData ==
    /\ pc = "sheet_data"
    /\ tab = "image"
    /\ sheetOps' = Append(sheetOps, "data")
    /\ \/ /\ sheetRows' = SetRow(sheetRows, 2, ImgDataRow)
          /\ pc' = "sheet_first_cell"
          /\ UNCHANGED <<messages, result>>
       \/ SheetFailure
    /\ SinkFrame

\* The overwrite of A1 and the success message (app.py:334-340).
ImgSheetFirstCell ==
    /\ pc = "sheet_first_cell"
    /\ tab = "image"
    /\ IF "openai" \in DOMAIN results \/ "tesseract" \in DOMAIN results
       THEN /\ sheetOps' = Append(sheetOps, "first_cell")
            /\ \/ /\ sheetRows' = SetRow(sheetRows, 1,
                        <<IF "openai" \in DOMAIN results
                          THEN results["openai"] ELSE results["tesseract"]>>)
                  /\ messages' = messages \cup {"success_sheet"}
                  /\ pc' = "return"
                  /\ UNCHANGED result
               \/ SheetFailure
       ELSE /\ messages' = messages \cup {"success_sheet"}
            /\ pc' = "return"
            /\ UNCHANGED <<sheetOps, sheetRows, result>>
    /\ SinkFrame

\* return results (app.py:344).
ImgReturn ==
    /\ pc = "return"
    /\ tab = "image"
    /\ result' = [kind |-> "results", dict |-> results]
    /\ pc' = "display"
    /\ UNCHANGED <<config, tab, sheet, sheetRows, sheetOps, filePos,
                   doc_opened, page_count, plans, i, temps, extracted_texts,
                   results, calls, messages, csv_offered>>

\* Tab 2 after process_image returned (app.py:425-446): shown only for a
\* result that is truthy, a dict that is not empty.
Tab2Display ==
    /\ pc = "display"
    /\ tab = "image"
    /\ csv_offered' = (result.kind = "results" /\ DOMAIN result.dict # {})
    /\ pc' = "done"
    /\ UNCHANGED <<config, tab, sheet, sheetRows, sheetOps, filePos,
                   doc_opened, page_count, plans, i, temps, extracted_texts,
                   results, result, calls, messages>>

\* ------------------------------------------------------------------ Next

Next ==
    \/ Tab1Warning
    \/ Tab1Start
    \/ Tab2Warning
    \/ Tab2Start
    \/ PdfOpen
    \/ Rasterize
    \/ RecordFailure
    \/ CallOpenAI
    \/ CallTesseract
    \/ AppendRow
    \/ LoopExit
    \/ SheetClear
    \/ SheetHeader
    \/ SheetData
    \/ SheetFirstCell
    \/ Return
    \/ Tab1Display
    \/ ProcessImageOpen
    \/ ImgCallOpenAI
    \/ ImgCallTesseract
    \/ ImgExtractDone
    \/ ImgSheetClear
    \/ ImgSheetHeader
    \/ ImgSheetData
    \/ ImgSheetFirstCell
    \/ ImgReturn
    \/ Tab2Display

Spec == Init /\ [][Next]_vars

\* ------------------------------------------------ helpers of the claims

\* The text fields the strategy selects.
StrategyFields ==
    IF ocr_method = "OpenAI" THEN {"openai"}
    ELSE IF ocr_method = "Tesseract" THEN {"tesseract"}
    ELSE {"openai", "tesseract"}

\* The log entries of one kind of call for one page.
CallsOf(op, p) == {x \in 1..Len(calls) : calls[x].op = op /\ calls[x].page = p}

\* Page p was handed to the rasterizer and an image came back.
Rendered(p) == \E x \in CallsOf("convert", p) : calls[x].out = "png"

\* Page p was handed to the rasterizer and no image came back.
RenderFailed(p) == \E x \in CallsOf("convert", p) : calls[x].out = "None"

\* The rows the loop of process_pdf (app.py:190-227) appends for the pages
\* p..page_count when the stream stands at pos and the rasterizer meets the
\* outcomes rp: the loop as a function of its inputs.
RECURSIVE RunLoop(_, _, _)
RunLoop(rp, p, pos) ==
    IF p > page_count THEN <<>>
    ELSE LET c == convert_pdf_page_to_image(pos, p - 1, rp[p], page_count)
             row == IF c.img # "None"
                    THEN SuccessRow(p,
                           IF UsesCloud
                           THEN extract_text_with_openai(c.img, p - 1, api_key,
                                                         cloudPlan[p])
                           ELSE "",
                           IF UsesLocal
                           THEN extract_text_with_tesseract(c.img, ocrPlan[p])
                           ELSE "")
                    ELSE FailureRow(p)
         IN  <<row>> \o RunLoop(rp, p + 1, c.pos)

\* The table process_pdf returns is the one RunLoop computes.
LoopAgreesWithRunLoop ==
    (tab = "pdf" /\ result.kind = "df")
        => result = DataFrame(RunLoop(rasterPlan, 1, "start"))

\* ----------------------------------------------------------------- claims

\* C1: a PDF run that returns a table returns one row per page, the r-th
\* row carrying page index r, whatever the rasterizer and the extractors
\* did; while the run lasts the list of rows holds one row per finished
\* page, and a step either leaves it alone or appends one row to it.
C1_OneRowPerPageInOrder ==
    /\ [](/\ \A r \in 1..Len(extracted_texts) : extracted_texts[r].page = r
          /\ pc = "loop" => Len(extracted_texts) = i
          /\ (tab = "pdf" /\ result.kind = "df") =>
                /\ Len(result.rows) = page_count
                /\ \A r \in 1..page_count : result.rows[r].page = r)
    /\ [][\/ extracted_texts' = extracted_texts
          \/ /\ Len(extracted_texts') = Len(extracted_texts) + 1
             /\ SubSeq(extracted_texts', 1, Len(extracted_texts))
                  = extracted_texts]_vars

\* A two-page table whose first page failed to render and whose second
\* page was extracted.
C1_Witness ==
    /\ tab = "pdf"
    /\ result.kind = "df"
    /\ page_count = 2
    /\ RenderFailed(1)
    /\ Rendered(2)

\* C2 (as claimed): when page k fails to render, the text fields of row k
\* all hold the conversion-failed text, and every other row of the returned
\* table is the row of the run in which page k rendered and everything else
\* went the same way.
C2_OtherRowsUnaffected ==
    (tab = "pdf" /\ result.kind = "df") =>
        \A k \in 1..page_count :
            RenderFailed(k) =>
                /\ \A c \in DOMAIN result.rows[k] \ {"page"} :
                      result.rows[k][c] = ConvFailed
                /\ LET other == DataFrame(
                          RunLoop([rasterPlan EXCEPT ![k] = "ok"], 1, "start"))
                   IN  \A j \in (1..page_count) \ {k} :
                          /\ DOMAIN result.rows[j] = DOMAIN other.rows[j]
                          /\ result.rows[j] = other.rows[j]

\* C3 (as claimed): every row of a PDF run, and the result of an image run,
\* has exactly the text fields of the strategy.
C3_StrategyDeterminesFields ==
    /\ \A r \in 1..Len(extracted_texts) :
          DOMAIN extracted_texts[r] \ {"page"} = StrategyFields
    /\ result.kind = "results" => DOMAIN result.dict = StrategyFields

\* C4 (as claimed): the placeholder of a non-success HTTP status is stored
\* in the page's cloud field, the later pages are processed, and the
\* placeholders of two such pages differ.
C4_PageSpecificPlaceholder ==
    (tab = "pdf" /\ result.kind = "df" /\ UsesCloud) =>
        \A k \in 1..page_count :
            (Rendered(k) /\ cloudPlan[k] = "http") =>
                /\ \A j \in (k + 1)..page_count : CallsOf("convert", j) # {}
                /\ \A j \in (1..page_count) \ {k} :
                      (Rendered(j) /\ cloudPlan[j] = "http") =>
                          result.rows[j].openai # result.rows[k].openai

\* C4 (amended): the placeholder of a non-success HTTP status is one fixed
\* text, the same for every page; it is what the call returned and what the
\* page's cloud field holds, and the later pages are processed.
C4_FixedPlaceholder ==
    (tab = "pdf" /\ result.kind = "df" /\ UsesCloud) =>
        \A k \in 1..page_count :
            (Rendered(k) /\ cloudPlan[k] = "http") =>
                /\ \A x \in CallsOf("openai", k) : calls[x].out = ApiErrorMsg
                /\ result.rows[k].openai = ApiErrorMsg
                /\ Len(result.rows) = page_count
                /\ \A j \in (k + 1)..page_count : CallsOf("convert", j) # {}

\* Two pages, both answered with a non-success status.
C4_Witness ==
    /\ tab = "pdf"
    /\ result.kind = "df"
    /\ page_count = 2
    /\ UsesCloud
    /\ Rendered(1) /\ cloudPlan[1] = "http"
    /\ Rendered(2) /\ cloudPlan[2] = "http"

\* C5 (as claimed): a run whose input could not be opened still ends with
\* a result.
C5_InputErrorYieldsResult ==
    (pc = "done" /\ doc_opened = "failed") => result.kind # "None"

\* C5 (amended): a run whose PDF could not be opened, or whose image could
\* not be decoded, shows the error and returns None: no row, no extractor
\* call, no sheet operation, no export.
C5_InputErrorEndsWithoutResult ==
    doc_opened = "failed" =>
        /\ pc \in {"display", "done"}
        /\ result.kind = "None"
        /\ extracted_texts = <<>>
        /\ results = <<>>
        /\ \A x \in 1..Len(calls) : calls[x].op = "connect"
        /\ sheetOps = <<>>
        /\ ~csv_offered
        /\ tab = "pdf" => "error_pdf" \in messages
        /\ tab = "image" => "error_image" \in messages

\* A PDF run that ended on a document that did not open.
C5_Witness ==
    /\ pc = "done"
    /\ tab = "pdf"
    /\ doc_opened = "failed"

\* The positions of the sink.
SinkPcs == {"sheet_clear", "sheet_header", "sheet_data", "sheet_first_cell"}

\* C6: a sheet operation that fails is reported and nothing else: the run
\* still returns the full result and offers the export, the sink never
\* changes the rows or the image's dict, and after the failure no sheet
\* operation is attempted again and the sheet keeps what was written.
C6_SinkFailureIsContained ==
    /\ []((pc = "done" /\ "error_sheet" \in messages) =>
            /\ csv_offered
            /\ "error_pdf" \notin messages /\ "error_image" \notin messages
            /\ tab = "pdf" =>
                  /\ result.kind = "df"
                  /\ Len(result.rows) = page_count
                  /\ result = DataFrame(extracted_texts)
            /\ tab = "image" =>
                  /\ result.kind = "results"
                  /\ result.dict = results
                  /\ DOMAIN results = StrategyFields)
    /\ [][/\ pc \in SinkPcs =>
                (extracted_texts' = extracted_texts /\ results' = results)
          /\ "error_sheet" \in messages =>
                (sheetOps' = sheetOps /\ sheetRows' = sheetRows)
          /\ ("error_sheet" \notin messages /\ "error_sheet" \in messages') =>
                sheetRows' = sheetRows]_vars

\* A PDF run that ended after the data-block write failed: the header is
\* still on the sheet.
C6_Witness ==
    /\ pc = "done"
    /\ tab = "pdf"
    /\ "error_sheet" \in messages
    /\ sheetOps = <<"clear", "header", "data">>
    /\ page_count = 2
    /\ Len(sheetRows) = 1

\* The layout the sink of process_pdf is claimed to leave.
ExpectedHeader ==
    IF ocr_method = "OpenAI" THEN <<"page", "openai">>
    ELSE IF ocr_method = "Tesseract" THEN <<"page", "tesseract">>
    ELSE <<"page", "openai", "tesseract">>

ExpectedDataRow(r) ==
    IF ocr_method = "OpenAI" THEN <<r, extracted_texts[r].openai>>
    ELSE IF ocr_method = "Tesseract" THEN <<r, extracted_texts[r].tesseract>>
    ELSE <<r, extracted_texts[r].openai, extracted_texts[r].tesseract>>

ExpectedSheet ==
    <<[ExpectedHeader EXCEPT ![1] =
          IF ocr_method = "Tesseract" THEN extracted_texts[1].tesseract
          ELSE extracted_texts[1].openai]>>
    \o [r \in 1..page_count |-> ExpectedDataRow(r)]

\* A PDF run whose sink ran to its end without a failure.
SinkSucceeded ==
    /\ tab = "pdf"
    /\ pc \in {"return", "display", "done"}
    /\ doc_opened = "ok"
    /\ sheet # "None"
    /\ "error_sheet" \notin messages

\* C7 (as claimed): the sink performs clear, header, data block, first
\* cell, in this order, and leaves the claimed layout.
C7_FourOperationsAlways ==
    SinkSucceeded =>
        /\ sheetOps = <<"clear", "header", "data", "first_cell">>
        /\ sheetRows = ExpectedSheet

\* C7 (amended): for a document of at least one page the sink performs
\* clear, header, data block, first cell, in this order, and leaves row 1
\* with the strategy's column names except A1, which holds the first row's
\* primary text, and one data row per table row in rows 2..N+1; for a
\* document without pages it performs clear and header only and row 1 holds
\* the column names.
C7_SheetLayout ==
    SinkSucceeded =>
        /\ "success_sheet" \in messages
        /\ IF page_count >= 1
           THEN /\ sheetOps = <<"clear", "header", "data", "first_cell">>
                /\ sheetRows = ExpectedSheet
                /\ Len(sheetRows) = page_count + 1
                /\ \A r \in 2..(page_count + 1) :
                      Len(sheetRows[r]) = Cardinality(StrategyFields) + 1
           ELSE /\ sheetOps = <<"clear", "header">>
                /\ sheetRows = <<ExpectedHeader>>

\* Two pages under both extractors whose first row's texts differ.
C7_Witness ==
    /\ SinkSucceeded
    /\ pc = "done"
    /\ ocr_method = "Both"
    /\ page_count = 2
    /\ Rendered(1)
    /\ extracted_texts[1].openai # extracted_texts[1].tesseract

\* C8: with the key absent and a strategy that uses the cloud extractor
\* the warning is all that happens in either tab: no rasterizer or
\* extractor call, no sheet connection or operation; with the local
\* strategy the absent key never brings the warning and both buttons start
\* the processing.
C8_MissingKeyBlocksCloudRuns ==
    /\ (api_key = "" /\ ocr_method # "Tesseract") =>
          /\ pc \in {"idle", "blocked"}
          /\ pc = "blocked" => "warning_api_key" \in messages
          /\ calls = <<>>
          /\ sheet = "None"
          /\ sheetOps = <<>>
          /\ sheetRows = PriorSheet
          /\ doc_opened = "unset"
          /\ result.kind = "unset"
    /\ (api_key = "" /\ ocr_method = "Tesseract") =>
          /\ pc # "blocked"
          /\ "warning_api_key" \notin messages
          /\ pc = "idle" => (ENABLED Tab1Start /\ ENABLED Tab2Start)

\* The warning shown for a cloud strategy without a key.
C8_Witness ==
    /\ pc = "blocked"
    /\ api_key = ""
    /\ ocr_method = "Both"
    /\ "warning_api_key" \in messages

\* The order of the calls within a page.
Rank(op) == IF op = "convert" THEN 0 ELSE IF op = "openai" THEN 1 ELSE 2

\* C9: in a PDF run a rendered page gets one call of each selected
\* extractor and none of an unselected one, a page that failed to render
\* gets none, no call is repeated, and the calls come page by page, the
\* cloud call before the local one.
C9_OneCallPerSelectedExtractor ==
    tab = "pdf" =>
        /\ \A p \in 1..page_count :
              /\ Cardinality(CallsOf("convert", p)) <= 1
              /\ Cardinality(CallsOf("openai", p))
                    <= (IF Rendered(p) /\ UsesCloud THEN 1 ELSE 0)
              /\ Cardinality(CallsOf("tesseract", p))
                    <= (IF Rendered(p) /\ UsesLocal THEN 1 ELSE 0)
              /\ (p <= i) =>
                    /\ Cardinality(CallsOf("convert", p)) = 1
                    /\ Cardinality(CallsOf("openai", p))
                          = (IF Rendered(p) /\ UsesCloud THEN 1 ELSE 0)
                    /\ Cardinality(CallsOf("tesseract", p))
                          = (IF Rendered(p) /\ UsesLocal THEN 1 ELSE 0)
        /\ \A x \in 1..Len(calls) : \A y \in (x + 1)..Len(calls) :
              /\ calls[x].page <= calls[y].page
              /\ calls[x].page = calls[y].page =>
                    Rank(calls[x].op) < Rank(calls[y].op)

\* Under both extractors: page 1 rendered and its cloud call failed, page 2
\* did not render.
C9_Witness ==
    /\ tab = "pdf"
    /\ pc = "done"
    /\ ocr_method = "Both"
    /\ page_count = 2
    /\ Rendered(1) /\ cloudPlan[1] = "http"
    /\ RenderFailed(2)

\* C10 (as claimed): every call of convert_pdf_page_to_image leaves the
\* stream at its start, and a page whose own rendering works is rendered
\* whatever happened to the pages before it.
C10_StreamRewound ==
    /\ pc = "branch" => filePos = "start"
    /\ \A x \in 1..Len(calls) :
          (calls[x].op = "convert" /\ rasterPlan[calls[x].page] = "ok")
              => calls[x].out = "png"

====
